---- MODULE Spec2Model ----
(***************************************************************************)
(* A model of the MKW mogi tracker: the track canonicalizer, the session   *)
(* engine (add_race / undo_last / reset_current / finalize_current /       *)
(* dashboard), the JSON export and the two importers, and the              *)
(* recanonicalize_tracks maintenance command.                              *)
(*                                                                         *)
(* Text is a sequence of one-character tokens, so that strip / lower /     *)
(* split / join / slugify are computed and not assumed.  The token         *)
(* "RSQUO" stands for the curly apostrophe U+2019.                         *)
(*                                                                         *)
(* The database is modelled at statement granularity with READ COMMITTED   *)
(* visibility: a row written inside transaction.atomic() is seen by other  *)
(* requests only after the commit, a unique constraint is decided when     *)
(* the writer commits, and a handler without a transaction runs each       *)
(* statement in autocommit.                                                *)
(***************************************************************************)
EXTENDS Integers, Sequences, FiniteSets, TLC

VARIABLES tracks, mogis, races, pc, req, loc, resp, left

vars == <<tracks, mogis, races, pc, req, loc, resp, left>>

(***************************************************************************)
(* Text                                                                    *)
(***************************************************************************)
SP == " "

APOS == "'"

RSQUO == "RSQUO"

IsSpace(c) == c = SP

UpperToLower == ("B" :> "b") @@ ("C" :> "c") @@ ("R" :> "r")

LowerChar(c) == IF c \in DOMAIN UpperToLower THEN UpperToLower[c] ELSE c

\* str.lower()
Lower(s) == [i \in DOMAIN s |-> LowerChar(s[i])]

\* str.replace(U+2019, "'")
ReplaceApos(s) == [i \in DOMAIN s |-> IF s[i] = RSQUO THEN APOS ELSE s[i]]

RECURSIVE LStrip(_)
LStrip(s) == IF s # <<>> /\ IsSpace(Head(s)) THEN LStrip(Tail(s)) ELSE s

RECURSIVE RStrip(_)
RStrip(s) ==
    IF s # <<>> /\ IsSpace(s[Len(s)]) THEN RStrip(SubSeq(s, 1, Len(s) - 1)) ELSE s

\* str.strip()
Strip(s) == RStrip(LStrip(s))

RECURSIVE SplitFrom(_, _, _, _)
SplitFrom(s, i, cur, acc) ==
    IF i > Len(s)
    THEN IF cur = <<>> THEN acc ELSE Append(acc, cur)
    ELSE IF IsSpace(s[i])
         THEN SplitFrom(s, i + 1, <<>>, IF cur = <<>> THEN acc ELSE Append(acc, cur))
         ELSE SplitFrom(s, i + 1, Append(cur, s[i]), acc)

\* str.split(): the words between runs of whitespace
Split(s) == SplitFrom(s, 1, <<>>, <<>>)

RECURSIVE Join(_, _)
Join(sep, words) ==
    IF words = <<>> THEN <<>>
    ELSE IF Len(words) = 1 THEN words[1]
    ELSE words[1] \o sep \o Join(sep, Tail(words))

bowser == <<"b", "o", "w", "s", "e", "r">>

castle == <<"c", "a", "s", "t", "l", "e">>

BowsersCastle == bowser \o <<APOS, "s", SP>> \o castle

CanonKeys ==
    { bowser \o <<SP>> \o castle,
      bowser \o <<"s", SP>> \o castle,
      bowser \o <<RSQUO, "s", SP>> \o castle,
      <<"b", "c">> }
    \cup { bowser \o <<SP>> \o castle \o <<SP, d>> : d \in {"1", "2", "3", "4"} }
    \cup { BowsersCastle \o <<SP, d>> : d \in {"1", "2", "3", "4"} }

\* Every alias names the same track.
CANON_MAP == [k \in CanonKeys |-> BowsersCastle]

\* A variant of the table in which aliases name other aliases, three lookups deep.
CanonGetChained(name) ==
    IF name = <<"b", "c">> THEN bowser \o <<SP>> \o castle
    ELSE IF name = bowser \o <<SP>> \o castle THEN bowser \o <<"s", SP>> \o castle
    ELSE IF name \in DOMAIN CANON_MAP THEN CANON_MAP[name] ELSE name

\* CANON_MAP.get(name, name)
CanonGet(name) == IF name \in DOMAIN CANON_MAP THEN CANON_MAP[name] ELSE name

canonicalize_track(raw) ==
    IF raw = <<>> THEN <<>>
    ELSE CanonGet(Join(<<SP>>, Split(ReplaceApos(Lower(Strip(raw))))))

Letters ==
    {"a", "b", "c", "e", "l", "o", "r", "s", "t", "w", "B", "C", "R"}

Digits == {"1", "2", "3", "4"}

\* \w of the slug pattern, after the text was reduced to ASCII
IsWord(c) == c \in Letters \cup Digits \cup {"_"}

IsAscii(c) == c # RSQUO

IsDashOrSpace(c) == c = "-" \/ IsSpace(c)

SlugChar(c) == IsWord(c) \/ IsDashOrSpace(c)

\* re.sub(r"[-\s]+", "-", value)
RECURSIVE Hyphenate(_, _)
Hyphenate(s, inRun) ==
    IF s = <<>> THEN <<>>
    ELSE IF IsDashOrSpace(Head(s))
         THEN IF inRun THEN Hyphenate(Tail(s), TRUE)
              ELSE <<"-">> \o Hyphenate(Tail(s), TRUE)
         ELSE <<Head(s)>> \o Hyphenate(Tail(s), FALSE)

IsEdge(c) == c \in {"-", "_"}

RECURSIVE StripEdge(_)
StripEdge(s) ==
    IF s = <<>> THEN s
    ELSE IF IsEdge(Head(s)) THEN StripEdge(Tail(s))
    ELSE IF IsEdge(s[Len(s)]) THEN StripEdge(SubSeq(s, 1, Len(s) - 1))
    ELSE s

\* django.utils.text.slugify, as slug_for_track calls it
slug_for_track(canon) ==
    StripEdge(Hyphenate(SelectSeq(Lower(SelectSeq(canon, IsAscii)), SlugChar), FALSE))

(***************************************************************************)
(* Stored state                                                            *)
(*   tracks : id -> [name, slug]           (Track; name and slug unique)   *)
(*   mogis  : id -> [owner, finalized, committed]   (Mogi; ids grow with   *)
(*            created_at; committed is FALSE for a row inserted by a       *)
(*            transaction that has not committed yet)                      *)
(*   races  : set of [id, mogi, track, index, position, points]  (Race)    *)
(***************************************************************************)
Users == {"alice", "bob"}

Procs == {"p1", "p2"}

MaxMogis == 3

MaxRequests == 6

MaxOps == 3

MinPosition == 1

MaxPosition == 12

MaxIndex == 12

RequiredRaces == 12

DEFAULT_POINTS ==
    (1 :> 15) @@ (2 :> 12) @@ (3 :> 10) @@ (4 :> 9) @@ (5 :> 8) @@ (6 :> 7) @@
    (7 :> 6) @@ (8 :> 5) @@ (9 :> 4) @@ (10 :> 3) @@ (11 :> 2) @@ (12 :> 1)

SetMax(S) == CHOOSE x \in S : \A y \in S : y <= x

SetMin(S) == CHOOSE x \in S : \A y \in S : x <= y

Remove(f, k) == [x \in DOMAIN f \ {k} |-> f[x]]

\* Race.save(): falsy points are replaced by the table's value for the position
RaceSavePoints(points, position) ==
    IF points = 0
    THEN IF position \in DOMAIN DEFAULT_POINTS THEN DEFAULT_POINTS[position] ELSE 0
    ELSE points

\* mogi.races
RacesOf(rs, m) == {r \in rs : r.mogi = m}

\* Mogi.race_count
race_count(rs, m) == Cardinality(RacesOf(rs, m))

\* unique_race_index_per_mogi
RaceIndexTaken(rs, m, index) == \E r \in rs : r.mogi = m /\ r.index = index

\* The checks the database holds on a Race row: the unique (mogi, index) pair and
\* the two PositiveIntegerField columns.  MinValueValidator / MaxValueValidator
\* run only in full_clean(), which no caller of create() invokes.
RaceRowRejected(rs, m, index, position) ==
    RaceIndexTaken(rs, m, index) \/ index < 0 \/ position < 0

\* Primary keys are opaque: a new race takes the least key that no stored race
\* and no request in flight still refers to.
NewRaceId(rs, held) ==
    LET used == {r.id : r \in rs} \cup held
    IN  CHOOSE n \in 1..(Cardinality(used) + 1) : n \notin used /\ \A k \in 1..(n - 1) : k \in used

\* Race.objects.create(...)
NewRace(rs, held, m, t, index, position, points) ==
    [id |-> NewRaceId(rs, held), mogi |-> m, track |-> t, index |-> index,
     position |-> position, points |-> RaceSavePoints(points, position)]

NewMogiId(ms) == IF DOMAIN ms = {} THEN 1 ELSE SetMax(DOMAIN ms) + 1

NewTrackId(ts) == IF DOMAIN ts = {} THEN 1 ELSE SetMax(DOMAIN ts) + 1

\* Track.objects.get(name=...): the id, or 0 for DoesNotExist
TrackByName(ts, name) ==
    IF \E t \in DOMAIN ts : ts[t].name = name
    THEN CHOOSE t \in DOMAIN ts : ts[t].name = name
    ELSE 0

SlugTaken(ts, slug) == \E t \in DOMAIN ts : ts[t].slug = slug

\* Track.save() on a new row: the name is canonicalized again and the slug derived
TrackRow(name) ==
    [name |-> canonicalize_track(name), slug |-> slug_for_track(canonicalize_track(name))]

\* The unique constraints on Track.name and Track.slug
InsertRefused(ts, row) ==
    (\E t \in DOMAIN ts : ts[t].name = row.name) \/ SlugTaken(ts, row.slug)

\* A get_or_create that propagates the IntegrityError of a lost insert race.
GetOrCreateNoRefetch(ts, canon, seen) ==
    IF seen # 0 THEN [ok |-> TRUE, id |-> seen, tracks |-> ts]
    ELSE IF ~InsertRefused(ts, TrackRow(canon))
    THEN [ok |-> TRUE, id |-> NewTrackId(ts),
          tracks |-> ts @@ (NewTrackId(ts) :> TrackRow(canon))]
    ELSE [ok |-> FALSE, id |-> 0, tracks |-> ts]

\* Track.objects.get_or_create(name=canon, defaults={"slug": ...}) after its
\* first get() returned `seen` (0: DoesNotExist).  The insert is refused when the
\* name or the slug is taken; the manager then fetches by name again and returns
\* that row, or re-raises when there is none (a slug clash under another name).
GetOrCreateAfterGet(ts, canon, seen) ==
    IF seen # 0 THEN [ok |-> TRUE, id |-> seen, tracks |-> ts]
    ELSE IF ~InsertRefused(ts, TrackRow(canon))
    THEN [ok |-> TRUE, id |-> NewTrackId(ts),
          tracks |-> ts @@ (NewTrackId(ts) :> TrackRow(canon))]
    ELSE IF TrackByName(ts, canon) # 0
    THEN [ok |-> TRUE, id |-> TrackByName(ts, canon), tracks |-> ts]
    ELSE [ok |-> FALSE, id |-> 0, tracks |-> ts]

\* get_or_create in one statement sequence with nothing interleaved
GetOrCreate(ts, canon) == GetOrCreateAfterGet(ts, canon, TrackByName(ts, canon))

(***************************************************************************)
(* Requests.  pc[p] is the statement worker p executes next, req[p] the     *)
(* request it received last, loc[p] the handler's local variables and      *)
(* resp[p] the response to req[p].  left is the number of operations       *)
(* (requests, imports) that may still begin.                               *)
(***************************************************************************)
\* made: _current_mogi found no open session and created the one it returned
NoLoc == [mogi |-> 0, idx |-> 0, race |-> 0, trk |-> 0, made |-> FALSE]

NoReq == [op |-> "none", user |-> "alice", track |-> <<>>, position |-> 0]

Held == {loc[p].race : p \in Procs}

\* Mogi.objects.filter(owner=user, finalized=False), as another request sees it
OpenMogis(ms, u) ==
    {m \in DOMAIN ms : ms[m].committed /\ ms[m].owner = u /\ ~ms[m].finalized}

\* The statement a handler runs once _current_mogi has returned
AfterCurrent(op) ==
    CASE op = "add_race" -> "add_index"
      [] op = "undo_last" -> "undo_select"
      [] op = "reset_current" -> "reset_delete"
      [] op = "finalize_current" -> "fin_count"
      [] op = "dashboard" -> "idle"

\* The handler returns.
Finish(p, r) ==
    /\ pc' = [pc EXCEPT ![p] = "idle"]
    /\ loc' = [loc EXCEPT ![p] = NoLoc]
    /\ resp' = [resp EXCEPT ![p] = r]
    /\ UNCHANGED req

\* _current_mogi, first statement: the oldest open session of the user, if any
CurrentMogiSelect(p, r) ==
    /\ pc[p] = "idle"
    /\ req' = [req EXCEPT ![p] = r]
    /\ left > 0
    /\ left' = left - 1
    /\ LET open == OpenMogis(mogis, r.user)
       IN  IF open = {}
           THEN /\ pc' = [pc EXCEPT ![p] = "create"]
                /\ loc' = [loc EXCEPT ![p] = NoLoc]
                /\ resp' = [resp EXCEPT ![p] = "pending"]
           ELSE /\ pc' = [pc EXCEPT ![p] = AfterCurrent(r.op)]
                /\ loc' = [loc EXCEPT ![p] =
                               IF r.op = "dashboard" THEN NoLoc
                               ELSE [NoLoc EXCEPT !.mogi = SetMin(open)]]
                /\ resp' = [resp EXCEPT ![p] =
                                IF r.op = "dashboard" THEN "ok" ELSE "pending"]
    /\ UNCHANGED <<tracks, mogis, races>>

\* _current_mogi, second statement: Mogi.objects.create(owner=user).  Inside
\* add_race the row belongs to the open transaction.
CurrentMogiCreate(p) ==
    /\ pc[p] = "create"
    /\ Cardinality(DOMAIN mogis) < MaxMogis
    /\ mogis' = mogis @@ (NewMogiId(mogis) :>
                   [owner |-> req[p].user, finalized |-> FALSE,
                    committed |-> req[p].op # "add_race"])
    /\ loc' = [loc EXCEPT ![p] =
                   IF req[p].op = "dashboard" THEN NoLoc
                   ELSE [NoLoc EXCEPT !.mogi = NewMogiId(mogis), !.made = TRUE]]
    /\ pc' = [pc EXCEPT ![p] = AfterCurrent(req[p].op)]
    /\ resp' = [resp EXCEPT ![p] = IF req[p].op = "dashboard" THEN "ok" ELSE "pending"]
    /\ UNCHANGED <<tracks, races, req, left>>

\* A check that forgets the track name.
PayloadValidNoTrack(track_raw, position) ==
    position >= MinPosition /\ position <= MaxPosition

\* add_race's check of its payload
PayloadValid(track_raw, position) ==
    track_raw # <<>> /\ position >= MinPosition /\ position <= MaxPosition

\* add_race with a payload it refuses: nothing is read or written
AddRaceInvalid(p, r) ==
    /\ pc[p] = "idle"
    /\ r.op = "add_race"
    /\ ~PayloadValid(r.track, r.position)
    /\ pc' = [pc EXCEPT ![p] = "idle"]
    /\ loc' = [loc EXCEPT ![p] = NoLoc]
    /\ resp' = [resp EXCEPT ![p] = "invalid"]
    /\ req' = [req EXCEPT ![p] = r]
    /\ left > 0
    /\ left' = left - 1
    /\ UNCHANGED <<tracks, mogis, races>>

\* add_race, the start of its transaction
AddRaceBegin(p, r) ==
    /\ r.op = "add_race"
    /\ PayloadValid(r.track, r.position)
    /\ CurrentMogiSelect(p, r)

Commit(ms, m) == [ms EXCEPT ![m].committed = TRUE]

Rollback(ms, m) == IF ms[m].committed THEN ms ELSE Remove(ms, m)

\* (mogi.races.aggregate(mx=Max("index"))["mx"] or 0) + 1
NextIndex(rs, m) ==
    IF RacesOf(rs, m) = {} THEN 1
    ELSE SetMax({r.index : r \in RacesOf(rs, m)}) + 1

\* add_race: next_index, and the capacity test (the early return commits)
AddRaceIndex(p) ==
    /\ pc[p] = "add_index"
    /\ IF NextIndex(races, loc[p].mogi) > MaxIndex
       THEN /\ Finish(p, "full")
            /\ mogis' = Commit(mogis, loc[p].mogi)
       ELSE /\ loc' = [loc EXCEPT ![p].idx = NextIndex(races, loc[p].mogi)]
            /\ pc' = [pc EXCEPT ![p] = "add_track"]
            /\ UNCHANGED <<mogis, resp, req>>
    /\ UNCHANGED <<tracks, races, left>>

\* add_race: the first get() of _get_or_create_track
AddRaceTrack(p) ==
    /\ pc[p] = "add_track"
    /\ loc' = [loc EXCEPT ![p].trk = TrackByName(tracks, canonicalize_track(req[p].track))]
    /\ pc' = [pc EXCEPT ![p] = "add_commit"]
    /\ UNCHANGED <<tracks, mogis, races, req, resp, left>>

\* add_race: the inserts of the track and of the race, and the commit.  An
\* IntegrityError leaves the atomic block and rolls the transaction back.
AddRaceCommit(p) ==
    /\ pc[p] = "add_commit"
    /\ LET g == GetOrCreateAfterGet(tracks, canonicalize_track(req[p].track), loc[p].trk)
           m == loc[p].mogi
       IN  IF ~g.ok \/ RaceRowRejected(races, m, loc[p].idx, req[p].position)
           THEN /\ mogis' = Rollback(mogis, m)
                /\ UNCHANGED <<tracks, races>>
                /\ Finish(p, "error")
           ELSE /\ tracks' = g.tracks
                /\ races' = races \cup
                       {NewRace(races, Held, m, g.id, loc[p].idx, req[p].position, 0)}
                /\ mogis' = Commit(mogis, m)
                /\ Finish(p, "ok")
    /\ UNCHANGED left

UndoBegin(p, u) == CurrentMogiSelect(p, [NoReq EXCEPT !.op = "undo_last", !.user = u])

\* A selection by lowest index.
LastRaceLowest(rs, m) ==
    IF RacesOf(rs, m) = {} THEN 0
    ELSE (CHOOSE r \in RacesOf(rs, m) : \A q \in RacesOf(rs, m) : r.index <= q.index).id

\* mogi.races.order_by("-index").first(): the id, or 0 for None
LastRace(rs, m) ==
    IF RacesOf(rs, m) = {} THEN 0
    ELSE (CHOOSE r \in RacesOf(rs, m) : \A q \in RacesOf(rs, m) : q.index <= r.index).id

UndoSelect(p) ==
    /\ pc[p] = "undo_select"
    /\ IF LastRace(races, loc[p].mogi) = 0
       THEN Finish(p, "noop")
       ELSE /\ loc' = [loc EXCEPT ![p].race = LastRace(races, loc[p].mogi)]
            /\ pc' = [pc EXCEPT ![p] = "undo_delete"]
            /\ UNCHANGED <<resp, req>>
    /\ UNCHANGED <<tracks, mogis, races, left>>

\* last.delete()
UndoDelete(p) ==
    /\ pc[p] = "undo_delete"
    /\ races' = {r \in races : r.id # loc[p].race}
    /\ Finish(p, "ok")
    /\ UNCHANGED <<tracks, mogis, left>>

ResetBegin(p, u) == CurrentMogiSelect(p, [NoReq EXCEPT !.op = "reset_current", !.user = u])

\* mogi.races.all().delete()
ResetDelete(p) ==
    /\ pc[p] = "reset_delete"
    /\ races' = {r \in races : r.mogi # loc[p].mogi}
    /\ Finish(p, "ok")
    /\ UNCHANGED <<tracks, mogis, left>>

FinalizeBegin(p, u) ==
    CurrentMogiSelect(p, [NoReq EXCEPT !.op = "finalize_current", !.user = u])

\* A finalize that accepts any count up to the required one.
FinalizeRefusedLax(rs, m) == race_count(rs, m) > RequiredRaces

\* if mogi.race_count != 12
FinalizeRefused(rs, m) == race_count(rs, m) # RequiredRaces

FinalizeCount(p) ==
    /\ pc[p] = "fin_count"
    /\ IF FinalizeRefused(races, loc[p].mogi)
       THEN Finish(p, "need12")
       ELSE /\ pc' = [pc EXCEPT ![p] = "fin_save"]
            /\ UNCHANGED <<loc, resp, req>>
    /\ UNCHANGED <<tracks, mogis, races, left>>

\* mogi.finalized = True; mogi.save(update_fields=["finalized"])
FinalizeSave(p) ==
    /\ pc[p] = "fin_save"
    /\ mogis' = [mogis EXCEPT ![loc[p].mogi].finalized = TRUE]
    /\ Finish(p, "ok")
    /\ UNCHANGED <<tracks, races, left>>

\* views.dashboard: _current_mogi, then queries that write nothing
DashboardBegin(p, u) ==
    CurrentMogiSelect(p, [NoReq EXCEPT !.op = "dashboard", !.user = u])

(***************************************************************************)
(* Export and import.  A JSON object is a record; a key that may be absent *)
(* holds <<>> (absent) or <<v>> (present with value v).                    *)
(*   blob  : [kind, keys, first, tracks, mogis, races]                     *)
(*   track : [id, name]        mogi : [id, finalized]                      *)
(*   race  : [mogi_id, track_name, track_id, index, position, points]      *)
(***************************************************************************)
Get(opt, default) == IF opt = <<>> THEN default ELSE opt[1]

\* Python truthiness of an optional number: present and not 0
Truthy(opt) == opt # <<>> /\ opt[1] # 0

\* A value read from JSON where text is expected
JStr(s) == [kind |-> "str", s |-> s, n |-> 0]

JInt(n) == [kind |-> "int", s |-> <<>>, n |-> n]

JNone == [kind |-> "none", s |-> <<>>, n |-> 0]

RaceKey(r) == <<r.index, r.id>>

KeyLess(a, b) == a[1] < b[1] \/ (a[1] = b[1] /\ a[2] < b[2])

\* The rows of a queryset of races in Meta.ordering = ["index"] (ties by id)
RECURSIVE RaceRows(_)
RaceRows(rs) ==
    IF rs = {} THEN <<>>
    ELSE LET r == CHOOSE x \in rs : \A y \in rs \ {x} : KeyLess(RaceKey(x), RaceKey(y))
         IN  <<r>> \o RaceRows(rs \ {r})

\* The ids of a set of rows in ascending order
RECURSIVE Ascending(_)
Ascending(S) == IF S = {} THEN <<>> ELSE <<SetMin(S)>> \o Ascending(S \ {SetMin(S)})

Visible(ms, u) == {m \in DOMAIN ms : ms[m].committed /\ ms[m].owner = u}

\* api.export_data: every track, the user's mogis and the user's races
ExportData(ts, ms, rs, u) ==
    LET tids == Ascending(DOMAIN ts)
        mids == Ascending(Visible(ms, u))
        rows == RaceRows({r \in rs : r.mogi \in Visible(ms, u)})
    IN  [kind |-> "dict", keys |-> {"tracks", "mogis", "races"}, first |-> {},
         tracks |-> [i \in DOMAIN tids |-> [id |-> tids[i], name |-> ts[tids[i]].name]],
         mogis |-> [i \in DOMAIN mids |->
                       [id |-> mids[i], finalized |-> ms[mids[i]].finalized]],
         races |-> [i \in DOMAIN rows |->
                       [mogi_id |-> rows[i].mogi, track_name |-> <<>>,
                        track_id |-> <<rows[i].track>>, index |-> <<rows[i].index>>,
                        position |-> <<rows[i].position>>,
                        points |-> <<rows[i].points>>]]]

\* import_data: the loop over payload["tracks"]
RECURSIVE ApiTracks(_, _, _)
ApiTracks(ts, list, map) ==
    IF list = <<>> THEN [ok |-> TRUE, tracks |-> ts, map |-> map]
    ELSE LET g == GetOrCreate(ts, canonicalize_track(Head(list).name))
         IN  IF ~g.ok THEN [ok |-> FALSE, tracks |-> ts, map |-> map]
             ELSE ApiTracks(g.tracks, Tail(list), (Head(list).id :> g.id) @@ map)

\* the loop over payload["mogis"]
RECURSIVE ApiMogis(_, _, _, _)
ApiMogis(ms, u, list, map) ==
    IF list = <<>> THEN [mogis |-> ms, map |-> map]
    ELSE ApiMogis(ms @@ (NewMogiId(ms) :>
                            [owner |-> u, finalized |-> Head(list).finalized,
                             committed |-> TRUE]),
                  u, Tail(list), (Head(list).id :> NewMogiId(ms)) @@ map)

\* the loop over payload["races"]: a missing key or id is a KeyError, a refused
\* row an IntegrityError
RECURSIVE ApiRaces(_, _, _, _, _)
ApiRaces(rs, held, list, mmap, tmap) ==
    IF list = <<>> THEN [ok |-> TRUE, races |-> rs]
    ELSE LET r == Head(list)
         IN  IF \/ r.mogi_id \notin DOMAIN mmap
                \/ r.track_id = <<>> \/ r.index = <<>>
                \/ r.position = <<>> \/ r.points = <<>>
             THEN [ok |-> FALSE, races |-> rs]
             ELSE IF \/ r.track_id[1] \notin DOMAIN tmap
                     \/ RaceRowRejected(rs, mmap[r.mogi_id], r.index[1], r.position[1])
             THEN [ok |-> FALSE, races |-> rs]
             ELSE ApiRaces(rs \cup {NewRace(rs, held, mmap[r.mogi_id],
                                            tmap[r.track_id[1]], r.index[1],
                                            r.position[1], r.points[1])},
                           held, Tail(list), mmap, tmap)

\* api.import_data: one transaction; any exception rolls all of it back
ImportDataResult(ts, ms, rs, held, u, blob) ==
    LET t == ApiTracks(ts, blob.tracks, <<>>)
        m == ApiMogis(ms, u, blob.mogis, <<>>)
        r == ApiRaces(rs, held, blob.races, m.map, t.map)
    IN  IF t.ok /\ r.ok
        THEN [ok |-> TRUE, tracks |-> t.tracks, mogis |-> m.mogis, races |-> r.races]
        ELSE [ok |-> FALSE, tracks |-> ts, mogis |-> ms, races |-> rs]

ImportData(u, blob) ==
    /\ left > 0
    /\ left' = left - 1
    /\ Cardinality(DOMAIN mogis) + Len(blob.mogis) <= MaxMogis
    /\ LET res == ImportDataResult(tracks, mogis, races, Held, u, blob)
       IN  /\ tracks' = res.tracks
           /\ mogis' = res.mogis
           /\ races' = res.races
    /\ UNCHANGED <<pc, req, loc, resp>>

DefaultImportPosition == 12

\* import_mogi_json.handle: the shape of the file
DetectShape(blob) ==
    IF blob.kind = "dict" /\ {"tracks", "mogis", "races"} \subseteq blob.keys THEN "A"
    ELSE IF blob.kind = "dict" /\ "mogis" \in blob.keys THEN "B"
    ELSE IF blob.kind = "list" /\ "races" \in blob.first THEN "B"
    ELSE IF blob.kind = "dict" /\ "history" \in blob.keys THEN "E"
    ELSE IF blob.kind = "list" /\ "track" \in blob.first THEN "E"
    ELSE "unrecognized"

\* ensure_track_id(name): canonicalize_track(name or "") raises on a value that
\* is no text, ValueError on an empty canonical name; else get_or_create.
EnsureTrackId(ts, v) ==
    IF v.kind # "str" \/ canonicalize_track(v.s) = <<>>
    THEN [ok |-> FALSE, id |-> 0, tracks |-> ts]
    ELSE GetOrCreate(ts, canonicalize_track(v.s))

\* parse_format_A: tracks = {t["id"]: ensure_track_id(t.get("name", ""))}; each
\* call commits on its own, and the first exception ends the command
RECURSIVE ParseTracksA(_, _)
ParseTracksA(ts, list) ==
    IF list = <<>> THEN [ok |-> TRUE, tracks |-> ts]
    ELSE LET g == EnsureTrackId(ts, JStr(Head(list).name))
         IN  IF ~g.ok THEN [ok |-> FALSE, tracks |-> ts]
             ELSE ParseTracksA(g.tracks, Tail(list))

\* r.get("track_name") or r.get("track") or r.get("track_slug") or r.get("track_id")
TrackOfRace(blob, r) ==
    IF r.track_name # <<>> /\ r.track_name[1] # <<>> THEN JStr(r.track_name[1])
    ELSE IF Truthy(r.track_id) THEN JInt(r.track_id[1])
    ELSE JNone

\* idx_map = {m_in["id"]: i}: the last block bearing the id
BlockOf(blob, id) ==
    IF \E i \in DOMAIN blob.mogis : blob.mogis[i].id = id
    THEN SetMax({i \in DOMAIN blob.mogis : blob.mogis[i].id = id})
    ELSE 0

\* parse_format_A: the session blocks, or a KeyError for an unknown mogi_id
ParseBlocksA(blob) ==
    IF \E i \in DOMAIN blob.races : BlockOf(blob, blob.races[i].mogi_id) = 0
    THEN [ok |-> FALSE, blocks |-> <<>>]
    ELSE [ok |-> TRUE,
          blocks |->
            [b \in DOMAIN blob.mogis |->
               [finalized |-> blob.mogis[b].finalized,
                races |->
                  LET mine(i) == BlockOf(blob, blob.races[i].mogi_id) = b
                      pick == SelectSeq([i \in DOMAIN blob.races |-> i], mine)
                  IN  [k \in DOMAIN pick |->
                         [track |-> TrackOfRace(blob, blob.races[pick[k]]),
                          position |-> blob.races[pick[k]].position,
                          index |-> IF Truthy(blob.races[pick[k]].index)
                                    THEN blob.races[pick[k]].index ELSE <<>>,
                          points |-> Get(blob.races[pick[k]].points, 0)]]]]]

\* handle: the races of one block; i counts every race of the block, the skipped
\* ones too
RECURSIVE CommandRaces(_, _, _, _, _, _)
CommandRaces(ts, rs, held, m, list, i) ==
    IF i > Len(list) THEN [ok |-> TRUE, tracks |-> ts, races |-> rs]
    ELSE LET r == list[i]
             g == EnsureTrackId(ts, r.track)
             idx == IF Truthy(r.index) THEN r.index[1] ELSE i
             pos == IF Truthy(r.position) THEN r.position[1] ELSE DefaultImportPosition
         IN  IF ~g.ok THEN CommandRaces(ts, rs, held, m, list, i + 1)
             ELSE IF RaceRowRejected(rs, m, idx, pos)
             THEN [ok |-> FALSE, tracks |-> ts, races |-> rs]
             ELSE CommandRaces(g.tracks,
                               rs \cup {NewRace(rs, held, m, g.id, idx, pos, r.points)},
                               held, m, list, i + 1)

\* handle: the loop over mogi_blocks inside transaction.atomic()
RECURSIVE CommandBlocks(_, _, _, _, _, _)
CommandBlocks(ts, ms, rs, held, u, blocks) ==
    IF blocks = <<>> THEN [ok |-> TRUE, tracks |-> ts, mogis |-> ms, races |-> rs]
    ELSE LET id == NewMogiId(ms)
             r == CommandRaces(ts, rs, held, id, Head(blocks).races, 1)
         IN  IF ~r.ok THEN [ok |-> FALSE, tracks |-> ts, mogis |-> ms, races |-> rs]
             ELSE CommandBlocks(r.tracks,
                                ms @@ (id :> [owner |-> u,
                                              finalized |-> Head(blocks).finalized,
                                              committed |-> TRUE]),
                                r.races, held, u, Tail(blocks))

\* manage.py import_mogi_json <username> <file> [--dry-run] on a Shape A file.
\* What parse_format_A wrote stays written whatever happens afterwards.
ImportCommandResult(ts, ms, rs, held, u, blob, dry_run) ==
    LET same == [tracks |-> ts, mogis |-> ms, races |-> rs]
        t == ParseTracksA(ts, blob.tracks)
        parsed == ParseBlocksA(blob)
        kept == [tracks |-> t.tracks, mogis |-> ms, races |-> rs]
        done == CommandBlocks(t.tracks, ms, rs, held, u, parsed.blocks)
    IN  IF u \notin Users \/ DetectShape(blob) # "A" THEN same
        ELSE IF ~t.ok \/ ~parsed.ok \/ dry_run THEN kept
        ELSE IF ~done.ok THEN kept
        ELSE [tracks |-> done.tracks, mogis |-> done.mogis, races |-> done.races]

ImportCommand(u, blob, dry_run) ==
    /\ DetectShape(blob) \in {"A", "unrecognized"}
    /\ left > 0
    /\ left' = left - 1
    /\ Cardinality(DOMAIN mogis) + Len(blob.mogis) <= MaxMogis
    /\ LET res == ImportCommandResult(tracks, mogis, races, Held, u, blob, dry_run)
       IN  /\ tracks' = res.tracks
           /\ mogis' = res.mogis
           /\ races' = res.races
    /\ UNCHANGED <<pc, req, loc, resp>>

(***************************************************************************)
(* Inputs and initial states of the session engine                         *)
(***************************************************************************)
RawBC == <<"B", "C">>

RawCurly == <<SP, "B">> \o Tail(bowser) \o <<RSQUO, "s", SP, SP, "C">> \o Tail(castle)

AddTracks == {<<>>, RawBC, RawCurly}

AddPositions == {0, 3, 13}

EngineUsers == {"alice"}

AddRequests ==
    {[op |-> "add_race", user |-> u, track |-> t, position |-> q] :
        u \in EngineUsers, t \in AddTracks, q \in AddPositions}

Idle ==
    /\ pc = [p \in Procs |-> "idle"]
    /\ req = [p \in Procs |-> NoReq]
    /\ loc = [p \in Procs |-> NoLoc]
    /\ resp = [p \in Procs |-> "none"]

\* The race add_race stores as the i-th of mogi 1, on track t
NewRaceRow(i, t) ==
    [id |-> i, mogi |-> 1, track |-> t, index |-> i, position |-> i,
     points |-> RaceSavePoints(0, i)]

\* The catalog and one open session after add_race was called n times for alice
\* with positions 1..n.
AfterAdds(n) ==
    /\ tracks = IF n = 0 THEN <<>> ELSE (1 :> TrackRow(RawBC))
    /\ mogis = IF n = 0 THEN <<>>
               ELSE (1 :> [owner |-> "alice", finalized |-> FALSE, committed |-> TRUE])
    /\ races = {NewRaceRow(i, 1) : i \in 1..n}

InitEngine == Idle /\ left = MaxRequests /\ (AfterAdds(0) \/ AfterAdds(MaxIndex - 1))

EngineStep(p) ==
    \/ \E r \in AddRequests : AddRaceInvalid(p, r)
    \/ \E r \in AddRequests : AddRaceBegin(p, r)
    \/ CurrentMogiCreate(p)
    \/ AddRaceIndex(p)
    \/ AddRaceTrack(p)
    \/ AddRaceCommit(p)
    \/ \E u \in EngineUsers : UndoBegin(p, u)
    \/ UndoSelect(p)
    \/ UndoDelete(p)
    \/ \E u \in EngineUsers : ResetBegin(p, u)
    \/ ResetDelete(p)
    \/ \E u \in EngineUsers : FinalizeBegin(p, u)
    \/ FinalizeCount(p)
    \/ FinalizeSave(p)
    \/ \E u \in EngineUsers : DashboardBegin(p, u)

NextEngine == \E p \in Procs : EngineStep(p)

SpecEngine == InitEngine /\ [][NextEngine]_vars

(***************************************************************************)
(* Import files and the whole system                                       *)
(***************************************************************************)
RawBowserCastle1 == <<"B">> \o Tail(bowser) \o <<SP, "C">> \o Tail(castle) \o <<SP, "1">>

ShapeA(ts, ms, rs) ==
    [kind |-> "dict", keys |-> {"tracks", "mogis", "races"}, first |-> {},
     tracks |-> ts, mogis |-> ms, races |-> rs]

ById(m, t, index, position, points) ==
    [mogi_id |-> m, track_name |-> <<>>, track_id |-> <<t>>, index |-> index,
     position |-> position, points |-> points]

\* One finalized mogi, one race that names its track by id alone
ScenarioBlob ==
    ShapeA(<<[id |-> 1, name |-> RawBowserCastle1]>>,
           <<[id |-> 5, finalized |-> TRUE]>>,
           <<ById(5, 1, <<1>>, <<3>>, <<>>)>>)

\* One open mogi whose only race bears index 13
ThirteenBlob ==
    ShapeA(<<[id |-> 1, name |-> RawBC]>>,
           <<[id |-> 5, finalized |-> FALSE]>>,
           <<ById(5, 1, <<13>>, <<3>>, <<10>>)>>)

\* One open mogi of twelve races numbered from 0
ZeroBasedBlob ==
    ShapeA(<<[id |-> 1, name |-> RawBC]>>,
           <<[id |-> 5, finalized |-> FALSE]>>,
           [i \in 1..12 |-> ById(5, 1, <<i - 1>>, <<3>>, <<10>>)])

\* Two races of one mogi under the same index
DuplicateBlob ==
    ShapeA(<<[id |-> 1, name |-> RawBC]>>,
           <<[id |-> 5, finalized |-> FALSE]>>,
           <<ById(5, 1, <<1>>, <<3>>, <<10>>), ById(5, 1, <<1>>, <<1>>, <<15>>)>>)

\* Races that name their track in text and leave index, position and points out
NamedBlob ==
    ShapeA(<<>>,
           <<[id |-> 7, finalized |-> FALSE]>>,
           <<[mogi_id |-> 7, track_name |-> <<RawCurly>>, track_id |-> <<>>,
              index |-> <<>>, position |-> <<>>, points |-> <<>>],
             [mogi_id |-> 7, track_name |-> <<>>, track_id |-> <<>>,
              index |-> <<>>, position |-> <<1>>, points |-> <<>>],
             [mogi_id |-> 7, track_name |-> <<RawBC>>, track_id |-> <<>>,
              index |-> <<>>, position |-> <<2>>, points |-> <<5>>]>>)

\* A JSON object with none of the keys the command knows
UnknownShapeBlob ==
    [kind |-> "dict", keys |-> {"sessions"}, first |-> {},
     tracks |-> <<>>, mogis |-> <<>>, races |-> <<>>]

\* A race of a mogi id that the file does not list
OrphanMogiBlob ==
    ShapeA(<<[id |-> 1, name |-> RawBC]>>,
           <<[id |-> 5, finalized |-> FALSE]>>,
           <<ById(5, 1, <<1>>, <<3>>, <<10>>), ById(6, 1, <<2>>, <<1>>, <<15>>)>>)

\* A race on a track id that the file does not list
OrphanTrackBlob ==
    ShapeA(<<[id |-> 1, name |-> RawBC]>>,
           <<[id |-> 5, finalized |-> FALSE]>>,
           <<ById(5, 2, <<1>>, <<3>>, <<10>>)>>)

ImportBlobs ==
    {ScenarioBlob, ThirteenBlob, ZeroBasedBlob, DuplicateBlob, NamedBlob,
     UnknownShapeBlob, OrphanMogiBlob, OrphanTrackBlob}

\* The files an import can be given: the fixed ones and any user's export
Files == ImportBlobs \cup {ExportData(tracks, mogis, races, u) : u \in Users}

Init == Idle /\ left = MaxOps /\ (AfterAdds(0) \/ AfterAdds(MaxIndex - 1))

ImportDataStep == left > 0 /\ \E u \in Users, blob \in Files : ImportData(u, blob)

\* The usernames the command is run with: the accounts and one that does not exist
Usernames == Users \cup {"carol"}

ImportCommandStep ==
    left > 0 /\ \E u \in Usernames, blob \in Files, dry_run \in BOOLEAN :
                    ImportCommand(u, blob, dry_run)

Next ==
    \/ \E p \in Procs : EngineStep(p)
    \/ ImportDataStep
    \/ ImportCommandStep

Spec == Init /\ [][Next]_vars

(***************************************************************************)
(* recanonicalize_tracks                                                   *)
(***************************************************************************)
CharCode ==
    (SP :> 32) @@ (APOS :> 39) @@ ("-" :> 45) @@ ("1" :> 49) @@ ("2" :> 50) @@
    ("3" :> 51) @@ ("4" :> 52) @@ ("B" :> 66) @@ ("C" :> 67) @@ ("R" :> 82) @@
    ("_" :> 95) @@ ("a" :> 97) @@ ("b" :> 98) @@ ("c" :> 99) @@ ("e" :> 101) @@
    ("l" :> 108) @@ ("o" :> 111) @@ ("r" :> 114) @@ ("s" :> 115) @@ ("t" :> 116) @@
    ("w" :> 119) @@ (RSQUO :> 8217)

RECURSIVE StrLess(_, _)
StrLess(a, b) ==
    IF a = <<>> THEN b # <<>>
    ELSE IF b = <<>> THEN FALSE
    ELSE IF CharCode[Head(a)] # CharCode[Head(b)] THEN CharCode[Head(a)] < CharCode[Head(b)]
    ELSE StrLess(Tail(a), Tail(b))

\* Track.objects.all(): the ids in Meta.ordering = ["name"]
RECURSIVE TracksByName(_, _)
TracksByName(ts, ids) ==
    IF ids = {} THEN <<>>
    ELSE LET t == CHOOSE x \in ids : \A y \in ids \ {x} : StrLess(ts[x].name, ts[y].name)
         IN  <<t>> \o TracksByName(ts, ids \ {t})

\* The loop of recanonicalize_tracks over the rows it read.  names holds the
\* name each row had when read, seen is canon_map.
RECURSIVE RecanonLoop(_, _, _, _, _)
RecanonLoop(ts, rs, names, list, seen) ==
    IF list = <<>> THEN [ok |-> TRUE, tracks |-> ts, races |-> rs]
    ELSE LET tr == Head(list)
             canon == canonicalize_track(names[tr])
             row == TrackRow(canon)
         IN  IF canon \notin DOMAIN seen
             THEN IF \E t \in DOMAIN ts \ {tr} :
                         ts[t].name = row.name \/ ts[t].slug = row.slug
                  THEN [ok |-> FALSE, tracks |-> ts, races |-> rs]
                  ELSE RecanonLoop([ts EXCEPT ![tr] = row], rs, names, Tail(list),
                                   (canon :> tr) @@ seen)
             ELSE RecanonLoop(Remove(ts, tr),
                              {IF r.track = tr THEN [r EXCEPT !.track = seen[canon]] ELSE r :
                                   r \in rs},
                              names, Tail(list), seen)

\* recanonicalize_tracks.handle: one transaction, undone by an IntegrityError
RecanonResult(ts, rs) ==
    LET res == RecanonLoop(ts, rs, [t \in DOMAIN ts |-> ts[t].name],
                           TracksByName(ts, DOMAIN ts), <<>>)
    IN  IF res.ok THEN res ELSE [ok |-> FALSE, tracks |-> ts, races |-> rs]

Recanonicalize ==
    /\ left > 0
    /\ left' = left - 1
    /\ tracks' = RecanonResult(tracks, races).tracks
    /\ races' = RecanonResult(tracks, races).races
    /\ UNCHANGED <<mogis, pc, req, loc, resp>>

MaxRuns == 2

\* Names as earlier versions of the alias table left them in the catalog
StoredNames ==
    { <<"b", "c">>, bowser \o <<SP>> \o castle, BowsersCastle,
      bowser \o <<"s", SP>> \o castle, bowser \o <<"s", "-">> \o castle,
      <<"R", "r">>, <<"r", "r">> }

\* A catalog: rows 1..n with distinct names and distinct slugs, each slug the one
\* derived from the stored name
Catalogs ==
    { c \in UNION {[1..n -> StoredNames] : n \in 0..3} :
        \A i, j \in DOMAIN c :
            i # j => (c[i] # c[j] /\ slug_for_track(c[i]) # slug_for_track(c[j])) }

InitRecanon ==
    /\ Idle
    /\ left = MaxRuns
    /\ \E c \in Catalogs :
          /\ tracks = [i \in DOMAIN c |-> [name |-> c[i], slug |-> slug_for_track(c[i])]]
          /\ \E f \in [1..2 -> DOMAIN c \cup {0}] :
                /\ races = {NewRaceRow(i, f[i]) : i \in {k \in 1..2 : f[k] # 0}}
                /\ mogis = IF races = {} THEN <<>>
                           ELSE (1 :> [owner |-> "alice", finalized |-> FALSE,
                                       committed |-> TRUE])

SpecRecanon == InitRecanon /\ [][Recanonicalize]_vars

(***************************************************************************)
(* Race creation: Race.objects.create(mogi, track, index, position[, points]) *)
(***************************************************************************)
MaxCreates == 2

CreatePositions == (MinPosition - 1)..(MaxPosition + 1)

\* The points argument: left out, or a number
SuppliedPoints == {<<>>, <<0>>, <<1>>, <<15>>, <<20>>}

\* points = models.IntegerField(default=0)
PointsFieldDefault == 0

\* Race.objects.create for the session of alice; points takes the field's default
\* when the argument is left out, and Race.save() then runs
CreateRace(position, supplied) ==
    /\ left > 0
    /\ left' = left - 1
    /\ races' = races \cup
                  {NewRace(races, Held, 1, 1, NextIndex(races, 1), position,
                           Get(supplied, PointsFieldDefault))}
    /\ UNCHANGED <<tracks, mogis, pc, req, loc, resp>>

InitPoints == Idle /\ left = MaxCreates /\ AfterAdds(1)

NextPoints == \E position \in CreatePositions, supplied \in SuppliedPoints :
                  CreateRace(position, supplied)

SpecPoints == InitPoints /\ [][NextPoints]_vars

(***************************************************************************)
(* Claims about race creation                                              *)
(***************************************************************************)
\* C12: a race created with a position in 1..12 and no points is stored with the
\* points of the table 15, 12, 10, 9, 8, 7, 6, 5, 4, 3, 2, 1; a race created with
\* points supplied is stored with the supplied value.
C12_PointsDefaultOrSupplied ==
    [][\A position \in 1..12, supplied \in SuppliedPoints :
        CreateRace(position, supplied) =>
            \E r \in races' \ races :
                /\ r.position = position
                /\ r.points = IF supplied = <<>>
                              THEN <<15, 12, 10, 9, 8, 7, 6, 5, 4, 3, 2, 1>>[position]
                              ELSE supplied[1]]_vars

\* The same with the supplied value 0 left out of the statement.
PointsDefaultOrNonZero ==
    [][\A position \in 1..12, supplied \in SuppliedPoints \ {<<0>>} :
        CreateRace(position, supplied) =>
            \E r \in races' \ races :
                /\ r.position = position
                /\ r.points = IF supplied = <<>>
                              THEN <<15, 12, 10, 9, 8, 7, 6, 5, 4, 3, 2, 1>>[position]
                              ELSE supplied[1]]_vars

(***************************************************************************)
(* Claims about the session engine                                         *)
(***************************************************************************)
Stored == <<tracks, mogis, races>>

\* C2: an owner never has more than one non-finalized session, whatever the
\* interleaving of the requests that resolve the current session.
C2_SingleOpenSession ==
    \A u \in Users : Cardinality(OpenMogis(mogis, u)) <= 1

\* C4: finalize_current, finding 0..11 races in the current session, is rejected
\* and flips no flag; finding exactly 12 it succeeds and sets the flag of that
\* session and of no other.
C4_FinalizeContract ==
    [][\A p \in Procs :
        LET m == loc[p].mogi
            n == Cardinality({r \in races : r.mogi = m})
        IN  /\ (pc[p] = "fin_count" /\ pc'[p] # "fin_count" /\ n \in 0..11)
                   => (pc'[p] = "idle" /\ resp'[p] = "need12" /\ mogis' = mogis)
            /\ (pc[p] = "fin_count" /\ pc'[p] # "fin_count" /\ n = 12)
                   => (pc'[p] = "fin_save" /\ loc'[p].mogi = m /\ mogis' = mogis)
            /\ (pc[p] = "fin_save" /\ pc'[p] # "fin_save")
                   => /\ resp'[p] = "ok"
                      /\ mogis'[m].finalized
                      /\ DOMAIN mogis' = DOMAIN mogis
                      /\ \A k \in DOMAIN mogis \ {m} : mogis'[k] = mogis[k]
                      /\ mogis'[m].owner = mogis[m].owner]_vars

C4_Witness ==
    \E p, q \in Procs :
        /\ pc[p] = "idle" /\ req[p].op = "finalize_current" /\ resp[p] = "need12"
        /\ pc[q] = "idle" /\ req[q].op = "finalize_current" /\ resp[q] = "ok"
        /\ \E m \in DOMAIN mogis : mogis[m].finalized /\ race_count(races, m) = 12

BadPayload(r) ==
    r.op = "add_race" /\ (r.track = <<>> \/ r.position < 1 \/ r.position > 12)

\* C5: add_race with a position outside 1..12 or an empty track name is answered
\* with the validation error, is never carried past the validation, and its step
\* creates no race, no session and no track.
C5_InvalidRejected ==
    [][/\ \A p \in Procs :
            BadPayload(req'[p]) => (pc'[p] = "idle" /\ resp'[p] = "invalid")
       /\ (\E p \in Procs : BadPayload(req'[p]) /\ req'[p] # req[p])
            => Stored' = Stored]_vars

C5_Witness ==
    \E p, q \in Procs :
        /\ pc[p] = "idle" /\ req[p].position = 13 /\ resp[p] = "invalid"
        /\ pc[q] = "idle" /\ req[q].op = "add_race" /\ req[q].track = <<>>
        /\ resp[q] = "invalid"
        /\ races = {} /\ DOMAIN mogis = {} /\ DOMAIN tracks = {}

\* C6: undo_last selects the race with the highest index of the current session
\* and deletes that race and no other; with no race in the session it answers
\* with the no-op and deletes nothing.
C6_UndoContract ==
    [][\A p \in Procs :
        LET mine == {r \in races : r.mogi = loc[p].mogi}
        IN  /\ (pc[p] = "undo_select" /\ pc'[p] # "undo_select" /\ mine = {})
                   => (pc'[p] = "idle" /\ resp'[p] = "noop" /\ Stored' = Stored)
            /\ (pc[p] = "undo_select" /\ pc'[p] # "undo_select" /\ mine # {})
                   => /\ pc'[p] = "undo_delete"
                      /\ \E r \in mine : /\ loc'[p].race = r.id
                                         /\ \A q \in mine : q.index <= r.index
                      /\ Stored' = Stored
            /\ (pc[p] = "undo_delete" /\ pc'[p] # "undo_delete")
                   => /\ resp'[p] = "ok"
                      /\ races' = races \ {r \in races : r.id = loc[p].race}
                      /\ mogis' = mogis /\ tracks' = tracks]_vars

C6_Witness ==
    \E p, q \in Procs :
        /\ pc[p] = "idle" /\ req[p].op = "undo_last" /\ resp[p] = "noop"
        /\ pc[q] = "idle" /\ req[q].op = "undo_last" /\ resp[q] = "ok"
        /\ \E m \in DOMAIN mogis : {r.index : r \in RacesOf(races, m)} = 1..10

\* C7: no two Track rows bear the same name; an add_race that commits attaches
\* its race to the Track named by the canonical form of the raw name; and a
\* get_or_create whose first lookup missed while another request inserted the
\* name fetches that row instead of failing.
C7_OneTrackPerName ==
    [][/\ \A s, t \in DOMAIN tracks' : tracks'[s].name = tracks'[t].name => s = t
       /\ \A p \in Procs :
            (pc[p] = "add_commit" /\ pc'[p] # "add_commit") =>
                LET canon == canonicalize_track(req[p].track)
                    there == \E t \in DOMAIN tracks : tracks[t].name = canon
                    free  == ~\E r \in races :
                                 r.mogi = loc[p].mogi /\ r.index = loc[p].idx
                IN  /\ resp'[p] = "ok" =>
                          \E r \in races' \ races :
                              /\ r.track \in DOMAIN tracks'
                              /\ tracks'[r.track].name = canon
                    /\ (there /\ free) => (resp'[p] = "ok" /\ tracks' = tracks)]_vars

C7_Witness ==
    \E p \in Procs :
        /\ pc[p] = "add_commit"
        /\ loc[p].trk = 0
        /\ \E t \in DOMAIN tracks : tracks[t].name = canonicalize_track(req[p].track)
        /\ ~RaceIndexTaken(races, loc[p].mogi, loc[p].idx)

\* C14: when add_race, undo_last or finalize_current ends rejected or as a no-op
\* (capacity reached, not 12 races, nothing to undo), the call has written
\* nothing: its last step leaves tracks, sessions and races as they were, and it
\* created no session when it resolved the current one.
C14_RejectedWritesNothing ==
    [][\A p \in Procs :
        (/\ pc[p] # "idle" /\ pc'[p] = "idle"
         /\ resp'[p] \in {"full", "need12", "noop"})
            => (Stored' = Stored /\ ~loc[p].made)]_vars

\* The same for calls that found an open session.
RejectedWritesNothingIfOpen ==
    [][\A p \in Procs :
        (/\ pc[p] # "idle" /\ pc'[p] = "idle"
         /\ resp'[p] \in {"full", "need12", "noop"}
         /\ ~loc[p].made)
            => Stored' = Stored]_vars

\* C13: in every state every finalized session holds exactly 12 races.
C13_FinalizedHaveTwelve ==
    \A m \in DOMAIN mogis : mogis[m].finalized => race_count(races, m) = 12

(***************************************************************************)
(* Claims about the whole system                                           *)
(***************************************************************************)
\* C1: in every state the races of a session have pairwise distinct indexes and
\* every index lies in 1..12.
C1_IndexesDistinctInRange ==
    \A r \in races :
        /\ r.index \in 1..12
        /\ \A q \in races : (q.mogi = r.mogi /\ q.index = r.index) => q = r

\* C3: add_race on a current session that holds 12 races is rejected with the
\* capacity error and changes no race.
C3_FullSessionRejected ==
    [][\A p \in Procs :
        (/\ pc[p] = "add_index" /\ pc'[p] # "add_index"
         /\ Cardinality({r \in races : r.mogi = loc[p].mogi}) = 12)
            => (pc'[p] = "idle" /\ resp'[p] = "full" /\ races' = races)]_vars

SessionsOf(ms, u) == Ascending(Visible(ms, u))

\* C9: the import command, given the file with one track {1, "Bowser Castle 1"},
\* one finalized mogi {5} and one race {mogi 5, track 1, position 3, index 1},
\* adds one finalized session holding one race on the track "bowser's castle"
\* with 10 points.
C9_ScenarioImported ==
    [][\A u \in Users :
        ImportCommand(u, ScenarioBlob, FALSE) =>
            \E m \in DOMAIN mogis' \ DOMAIN mogis :
                /\ DOMAIN mogis' = DOMAIN mogis \cup {m}
                /\ mogis'[m].finalized /\ mogis'[m].owner = u
                /\ \E r \in races' :
                      /\ races' = races \cup {r}
                      /\ r.mogi = m /\ r.index = 1 /\ r.position = 3 /\ r.points = 10
                      /\ r.track \in DOMAIN tracks'
                      /\ tracks'[r.track].name = BowsersCastle]_vars

\* What an export and its import must agree on: per session, in creation order,
\* the races in index order with position, points and canonical track name.
Digest(ts, ms, rs, u) ==
    LET ids == SessionsOf(ms, u)
    IN  [i \in DOMAIN ids |->
            LET rows == RaceRows(RacesOf(rs, ids[i]))
            IN  [k \in DOMAIN rows |->
                    [position |-> rows[k].position, points |-> rows[k].points,
                     track |-> canonicalize_track(ts[rows[k].track].name)]]]

\* C10: a user's export, imported for a user without sessions, yields the same
\* number of sessions, race counts, positions, points and canonical track names
\* (here: imported with the import command).
C10_RoundTripCommand ==
    [][\A src, dst \in Users :
        (/\ src # dst
         /\ Visible(mogis, dst) = {}
         /\ ImportCommand(dst, ExportData(tracks, mogis, races, src), FALSE))
            => Digest(tracks', mogis', races', dst) = Digest(tracks, mogis, races, src)]_vars

\* The same round trip through api.import_data.
RoundTripApi ==
    [][\A src, dst \in Users :
        (/\ src # dst
         /\ Visible(mogis, dst) = {}
         /\ ImportData(dst, ExportData(tracks, mogis, races, src)))
            => Digest(tracks', mogis', races', dst) = Digest(tracks, mogis, races, src)]_vars

\* api.import_data raised: the transaction was rolled back
ApiFails(u, blob) == ~ImportDataResult(tracks, mogis, races, Held, u, blob).ok

\* The import command ended with an error
CommandFails(u, blob) ==
    \/ u \notin Users
    \/ DetectShape(blob) = "unrecognized"
    \/ ~ParseTracksA(tracks, blob.tracks).ok
    \/ ~ParseBlocksA(blob).ok
    \/ ~CommandBlocks(ParseTracksA(tracks, blob.tracks).tracks, mogis, races, Held, u,
                      ParseBlocksA(blob).blocks).ok

\* C11: an import that fails (unrecognized shape, a race of a mogi or track id
\* that the file lacks, a duplicate (session, index), an unknown user) and a dry
\* run leave tracks, sessions and races as they were; an import that succeeds
\* commits every session of the file (and, through import_data, every race).
C11_ImportAllOrNothing ==
    [][/\ \A u \in Users, blob \in Files :
            ImportData(u, blob) =>
                IF ApiFails(u, blob) THEN Stored' = Stored
                ELSE /\ Cardinality(DOMAIN mogis' \ DOMAIN mogis) = Len(blob.mogis)
                     /\ Cardinality(races' \ races) = Len(blob.races)
       /\ \A u \in Usernames, blob \in Files, dry_run \in BOOLEAN :
            ImportCommand(u, blob, dry_run) =>
                IF dry_run \/ CommandFails(u, blob) THEN Stored' = Stored
                ELSE Cardinality(DOMAIN mogis' \ DOMAIN mogis) = Len(blob.mogis)]_vars

\* The same for api.import_data alone.
ImportDataAllOrNothing ==
    [][\A u \in Users, blob \in Files :
            ImportData(u, blob) =>
                IF ApiFails(u, blob) THEN Stored' = Stored
                ELSE /\ Cardinality(DOMAIN mogis' \ DOMAIN mogis) = Len(blob.mogis)
                     /\ Cardinality(races' \ races) = Len(blob.races)]_vars

(***************************************************************************)
(* Claims about recanonicalize_tracks                                      *)
(***************************************************************************)
\* What C15 asks of a run: one track per canonical name, every name canonical,
\* every race kept and on the track that bears the canonical name of its old one.
Merged(ts, rs, ts2, rs2) ==
    /\ \A s, t \in DOMAIN ts2 : ts2[s].name = ts2[t].name => s = t
    /\ \A t \in DOMAIN ts2 : canonicalize_track(ts2[t].name) = ts2[t].name
    /\ {ts2[t].name : t \in DOMAIN ts2} = {canonicalize_track(ts[t].name) : t \in DOMAIN ts}
    /\ Cardinality(rs2) = Cardinality(rs)
    /\ \A r \in rs : \E q \in rs2 :
          /\ q.id = r.id
          /\ q.track \in DOMAIN ts2
          /\ ts2[q.track].name = canonicalize_track(ts[r.track].name)
          /\ [q EXCEPT !.track = r.track] = r

\* C15: on any stored catalog, one that holds a variant name next to its
\* canonical name included, recanonicalize_tracks completes; afterwards there is
\* one track per canonical name, the races of removed duplicates are on the
\* surviving track, and the number of races is unchanged.
C15_RecanonCompletesMerged ==
    [][Recanonicalize =>
          /\ RecanonLoop(tracks, races, [t \in DOMAIN tracks |-> tracks[t].name],
                         TracksByName(tracks, DOMAIN tracks), <<>>).ok
          /\ Merged(tracks, races, tracks', races')]_vars

\* The same for the runs that complete.
RecanonMergedIfCompleted ==
    [][(/\ Recanonicalize
        /\ RecanonLoop(tracks, races, [t \in DOMAIN tracks |-> tracks[t].name],
                       TracksByName(tracks, DOMAIN tracks), <<>>).ok)
            => Merged(tracks, races, tracks', races')]_vars

\* C8: a run of recanonicalize_tracks that follows another run changes no track
\* (name, slug, existence) and no race.
C8_RecanonIdempotent ==
    [][left < MaxRuns => (tracks' = tracks /\ races' = races)]_vars

\* Two runs done, the first of which merged a duplicate away.
C8_Witness ==
    /\ left <= MaxRuns - 2
    /\ DOMAIN tracks # 1..Cardinality(DOMAIN tracks)
    /\ races # {}

====
